---- MODULE Spec2Model ----
(***************************************************************************)
(* Model of the manual-crop-to-rectified-document core of hallo.pdf.       *)
(*                                                                         *)
(*   - the quadrilateral editor of src/components/ImageTools.tsx           *)
(*     (points, rotation, isDragging, isRotating and the pointer handlers) *)
(*   - the rectify / enhance pipeline of the DigitalImageEnhancer variant  *)
(*     stored in src/components/PrivacyPolicy.tsx (applyManualCrop,        *)
(*     handleAutoEnhance), with every native OpenCV handle they create     *)
(*     and delete                                                          *)
(*   - the image state of that enhancer under overlapping enhancements     *)
(*                                                                         *)
(* Coordinates are exact integers in display pixels; the floating point    *)
(* rounding of the source is idealised to real arithmetic, and rotations   *)
(* are explored for the pointer positions whose angle is a multiple of 90  *)
(* degrees, where cos and sin are exact.                                   *)
(***************************************************************************)
EXTENDS Integers, Sequences, FiniteSets, TLC

VARIABLES
  \* ---- ImageTools.tsx: crop editor -------------------------------------
  showCropModal,   \* useState(false)
  cropImageSrc,    \* useState<string|null>(null); NoSrc is null
  points,          \* useState<Point[]>([]); a JS array, possibly with holes
  rotation,        \* useState(0), degrees
  isDragging,      \* useState<number|null>(null); Null is null
  isRotating,      \* useState(false)
  toolsImage,      \* ImageTools `image`: NoSrc or the id of the preview
  toolsLoading,    \* ImageTools `loading`
  toolsError,      \* ImageTools `error`: "" is null
  imgSize,         \* imgRef.current.{width,height} of the displayed <img>
  rect,            \* cropContainerRef.current.getBoundingClientRect()
  cropJob,         \* the handleCropComplete call suspended in applyCrop
  renderError,     \* the render threw (points[0] read from a hole)
  sessions,        \* history: number of images handed to the crop editor
  moves,           \* history: number of pointer moves that updated points
  lastEvent        \* history: the handler that ran last and its input

VARIABLES
  \* ---- PrivacyPolicy.tsx: DigitalImageEnhancer (crop + enhance) ---------
  cvReady,         \* useState(false)
  image,           \* useState<ImageState|null>(null)
  loading,         \* useState(false)
  error,           \* useState<string|null>(null); "" is null
  enhancements,    \* useState<Enhancement>(defaultEnhancements)
  quality,         \* useState(80)
  jobs,            \* the applyManualCrop / handleAutoEnhance calls suspended
                   \* at an await, by order of issue
  leaked,          \* native handles left undeleted by finished invocations
  failed,          \* history: some invocation ended in an error
  lastRun          \* history: the deletes of the invocation that ended last

VARIABLES
  \* ---- unnamed/part_004: DigitalImageEnhancer (worker-based enhance) ----
  initializingCV,  \* useState(true)
  wCvReady,        \* useState(false)
  wImage,          \* useState<ImageState|null>(null)
  wLoading,        \* useState(false)
  wError,          \* useState<string|null>(null); "" is null
  wEnhancements,   \* useState<Enhancement>(defaultEnhancements)
  wJobs,           \* the handleAutoEnhance calls, by order of issue, each
                   \* with the cvReady and enhancements its closure captured,
                   \* its Worker and its workerTimeout
  wLast            \* history: the handler that ran last and its call

VARIABLES
  \* ---- the pure steps of the crop and of the enhancement ----------------
  calc             \* one call of a pure step: its name, its argument and,
                   \* once it has run, its result

editorVars == <<showCropModal, cropImageSrc, points, rotation, isDragging,
                isRotating, toolsImage, toolsLoading, toolsError, imgSize,
                rect, cropJob, renderError, sessions, moves,
                lastEvent>>

enhVars == <<cvReady, image, loading, error, enhancements, quality, jobs,
             leaked, failed, lastRun>>

workerVars == <<initializingCV, wCvReady, wImage, wLoading, wError,
                wEnhancements, wJobs, wLast>>

pureVars == <<calc>>

VARIABLES
  \* ---- index.html and initOpenCV of PrivacyPolicy.tsx -------------------
  window_cv,       \* window.cv: absent, present without Mat / cvtColor, or
                   \* complete
  isOpenCvReady,   \* window.isOpenCvReady
  ready,           \* the promise of initOpenCV(): none before the effect
                   \* has run, then pending, resolved or rejected
  listener,        \* the 'opencv-ready' listener is registered
  checkInterval,   \* the setInterval of initOpenCV is active
  readyTimeout,    \* the setTimeout of initOpenCV: none, armed or fired
  polls            \* runs of the interval callback since initOpenCV()

loaderVars == <<window_cv, isOpenCvReady, ready, listener, checkInterval,
                readyTimeout, polls>>

vars == <<editorVars, enhVars, workerVars, pureVars, loaderVars>>

-----------------------------------------------------------------------------
(* Bounds of the exploration *)

MaxSessions == 2          \* images dropped into the crop editor
MaxPolls == 4             \* runs of the 100 ms interval before the 30 s timeout
MaxDrops == 1             \* images dropped into the enhancer
MaxCalls == 3             \* applyManualCrop + handleAutoEnhance invocations
MaxWorkerCalls == 3       \* handleAutoEnhance invocations of the worker variant
MaxTicks == 2             \* interval ticks of one waitForCvReady told apart
MaxMoves == 2             \* pointer moves that update the quadrilateral
MaxCoord == 16            \* |coordinate| explored after a rotation

(* Inputs *)

\* displayed sizes of the <img> (imgRef.current.width / height)
ImgSizes == {[width |-> 10, height |-> 10]}

\* the container is a block element: at least as large as the image in it
RectsFor(sz) == {[width |-> sz.width, height |-> sz.height],
                 [width |-> sz.width + 4, height |-> sz.height + 2]}

\* slider inputs of the enhancement controls (range 0..200, default 100)
EnhKeys == {"brightness", "contrast", "saturation"}
SliderValues == {150}

\* inputs of the quality slider (range 10..100, default 80)
QualityValues == {50}

\* pointer positions e.clientX - rect.left, e.clientY - rect.top
Pointers == {<<-2, 5>>, <<9, 5>>, <<5, 9>>, <<13, 12>>}

-----------------------------------------------------------------------------
(* Values *)

Null == -1                          \* isDragging === null
NoSrc == 0                          \* cropImageSrc === null, image === null
Hole == [hole |-> TRUE]             \* an empty slot of a sparse JS array
NoJob == [active |-> FALSE]
NoImage == [present |-> FALSE]      \* ImageTools image === null
NoSize == [width |-> 0, height |-> 0]
Pt(px, py) == [x |-> px, y |-> py]
Ev(o, p, q) == [op |-> o, a |-> p, b |-> q]

Max(p, q) == IF p >= q THEN p ELSE q
Min(p, q) == IF p <= q THEN p ELSE q

\* newPoints.push(v) in place of newPoints[i] = v
SetAtPush(arr, i, v) == Append(arr, v)

\* newPoints[i] = v on a copy of arr (i is 0-based; writing past the end
\* leaves holes, as a JS array does)
SetAt(arr, i, v) ==
  [k \in 1..Max(Len(arr), i + 1) |->
     IF k = i + 1 THEN v ELSE IF k <= Len(arr) THEN arr[k] ELSE Hole]

Present(arr) == {k \in 1..Len(arr) : arr[k] # Hole}

RECURSIVE SumX(_, _), SumY(_, _)
SumX(arr, ks) ==
  IF ks = {} THEN 0
  ELSE LET k == CHOOSE j \in ks : TRUE IN arr[k].x + SumX(arr, ks \ {k})
SumY(arr, ks) ==
  IF ks = {} THEN 0
  ELSE LET k == CHOOSE j \in ks : TRUE IN arr[k].y + SumY(arr, ks \ {k})

-----------------------------------------------------------------------------
(* ImageTools.tsx: handleImageLoad *)

\* the quadrilateral inset by 10% on each side; width * 0.8 and
\* (width - cropWidth) / 2 are exact for the sizes explored (multiples of 10)
InitialQuad(sz) ==
  LET cropWidth == (sz.width * 8) \div 10
      cropHeight == (sz.height * 8) \div 10
      cropX == (sz.width - cropWidth) \div 2
      cropY == (sz.height - cropHeight) \div 2
  IN << Pt(cropX, cropY), Pt(cropX + cropWidth, cropY),
        Pt(cropX + cropWidth, cropY + cropHeight),
        Pt(cropX, cropY + cropHeight) >>

\* what the JSX reads when it renders the handles: points[0] and points[1]
RenderThrows(pts) == Len(pts) = 4 /\ (pts[1] = Hole \/ pts[2] = Hole)

\* the crop container with the <img> is mounted
CropShown == showCropModal /\ cropImageSrc # NoSrc /\ ~renderError

\* the corner handles and the rotate handle are mounted
HandlesShown == CropShown /\ Len(points) = 4

handleImageLoad ==
  /\ CropShown
  /\ points' = InitialQuad(imgSize)
  /\ lastEvent' = Ev("load", 0, 0)
  /\ UNCHANGED <<showCropModal, cropImageSrc, rotation, isDragging,
                 isRotating, toolsImage, toolsLoading, toolsError, imgSize,
                 rect, cropJob, renderError, sessions, moves>>
  /\ UNCHANGED <<enhVars, workerVars, pureVars, loaderVars>>

-----------------------------------------------------------------------------
(* ImageTools.tsx: handleMouseDown, handleMouseMove, handleMouseUp *)

\* index is a corner 0..3 or "rotate" (RotateHandle)
RotateHandle == 4

handleMouseDown(index) ==
  /\ HandlesShown
  /\ IF index = RotateHandle
       THEN isRotating' = TRUE /\ UNCHANGED isDragging
       ELSE isDragging' = index /\ UNCHANGED isRotating
  /\ lastEvent' = Ev("down", index, 0)
  /\ UNCHANGED <<showCropModal, cropImageSrc, points, rotation, toolsImage,
                 toolsLoading, toolsError, imgSize, rect, cropJob,
                 renderError, sessions, moves>>
  /\ UNCHANGED <<enhVars, workerVars, pureVars, loaderVars>>

\* Math.max(0, Math.min(x, rect.width)), Math.max(0, Math.min(y, rect.height))
ClampToRect(x, y, r) == Pt(Max(0, Min(x, r.width)), Max(0, Min(y, r.height)))

\* Math.atan2(y - center.y, x - center.x) in degrees, for the directions in
\* which it is a multiple of 90; sx, sy are 4 * center.x, 4 * center.y
AxisAligned(x, y, sx, sy) == 4 * y = sy \/ 4 * x = sx
Atan2Deg(x, y, sx, sy) ==
  IF 4 * y = sy THEN (IF 4 * x >= sx THEN 0 ELSE 180)
  ELSE IF 4 * y > sy THEN 90 ELSE -90

\* center + radius * (cos, sin)(currentAngle + deg) for deg a multiple of 90
RotatePoint(p, sx, sy, deg) ==
  IF deg = 0 THEN p
  ELSE IF deg = 90 THEN Pt((sx + sy) \div 4 - p.y, (sy - sx) \div 4 + p.x)
  ELSE IF deg = -90 THEN Pt((sx - sy) \div 4 + p.y, (sy + sx) \div 4 - p.x)
  ELSE Pt(sx \div 2 - p.x, sy \div 2 - p.y)

\* the rotated point has integer coordinates
Exact(sx, sy, deg) ==
  IF deg = 0 THEN TRUE
  ELSE IF deg = 90 \/ deg = -90 THEN (sx + sy) % 4 = 0 /\ (sx - sy) % 4 = 0
  ELSE sx % 2 = 0 /\ sy % 2 = 0

InRange(p) == p = Hole \/ (/\ p.x >= -MaxCoord /\ p.x <= MaxCoord
                           /\ p.y >= -MaxCoord /\ p.y <= MaxCoord)

\* points.map(...) of the rotate branch: holes stay holes
RotateAll(pts, sx, sy, deg) ==
  [k \in 1..Len(pts) |->
     IF pts[k] = Hole THEN Hole ELSE RotatePoint(pts[k], sx, sy, deg)]

\* the rotate branch: center is the mean over 4 of the points present
MoveRotate(x, y) ==
  LET sx == SumX(points, Present(points))
      sy == SumY(points, Present(points))
      newRotation == Atan2Deg(x, y, sx, sy) - 90
      newPoints == RotateAll(points, sx, sy, newRotation)
  IN /\ moves < MaxMoves
     /\ moves' = moves + 1
     /\ AxisAligned(x, y, sx, sy)
     /\ Exact(sx, sy, newRotation)
     /\ \A k \in 1..Len(newPoints) : InRange(newPoints[k])
     /\ rotation' = newRotation
     /\ points' = newPoints
     /\ renderError' = RenderThrows(newPoints)

\* the corner branch
MoveCorner(x, y) ==
  LET newPoints == SetAt(points, isDragging, ClampToRect(x, y, rect))
  IN /\ moves < MaxMoves
     /\ moves' = moves + 1
     /\ points' = newPoints
     /\ renderError' = RenderThrows(newPoints)
     /\ UNCHANGED rotation

\* handleMouseMove without its early return on an idle Drag State
handleMouseMoveNoEarlyReturn(x, y) ==
  /\ CropShown
  /\ lastEvent' = Ev("move", x, y)
  /\ IF isRotating \/ isDragging = Null
       THEN MoveRotate(x, y)
       ELSE MoveCorner(x, y)
  /\ UNCHANGED <<showCropModal, cropImageSrc, isDragging, isRotating,
                 toolsImage, toolsLoading, toolsError, imgSize, rect,
                 cropJob, sessions>>
  /\ UNCHANGED <<enhVars, workerVars, pureVars, loaderVars>>

handleMouseMove(x, y) ==
  /\ CropShown
  /\ lastEvent' = Ev("move", x, y)
  /\ IF isDragging = Null /\ ~isRotating
       THEN UNCHANGED <<points, rotation, renderError, moves>>
     ELSE IF isRotating
       THEN MoveRotate(x, y)
     ELSE MoveCorner(x, y)
  /\ UNCHANGED <<showCropModal, cropImageSrc, isDragging, isRotating,
                 toolsImage, toolsLoading, toolsError, imgSize, rect,
                 cropJob, sessions>>
  /\ UNCHANGED <<enhVars, workerVars, pureVars, loaderVars>>

\* handleMouseUp that forgets setIsRotating(false)
handleMouseUpKeepsRotating ==
  /\ CropShown
  /\ isDragging' = Null
  /\ lastEvent' = Ev("up", 0, 0)
  /\ UNCHANGED <<showCropModal, cropImageSrc, points, rotation, toolsImage,
                 toolsLoading, toolsError, imgSize, rect, cropJob,
                 renderError, sessions, moves, isRotating>>
  /\ UNCHANGED <<enhVars, workerVars, pureVars, loaderVars>>

\* onMouseUp and onMouseLeave of the crop container
handleMouseUp ==
  /\ CropShown
  /\ isDragging' = Null
  /\ isRotating' = FALSE
  /\ lastEvent' = Ev("up", 0, 0)
  /\ UNCHANGED <<showCropModal, cropImageSrc, points, rotation, toolsImage,
                 toolsLoading, toolsError, imgSize, rect, cropJob,
                 renderError, sessions, moves>>
  /\ UNCHANGED <<enhVars, workerVars, pureVars, loaderVars>>

-----------------------------------------------------------------------------
(* ImageTools.tsx: onDrop, resetImage, the Cancel button *)

\* the dropzone is mounted
DropzoneShown ==
  ~renderError /\ ~(showCropModal /\ cropImageSrc # NoSrc) /\ toolsImage = NoImage

\* a valid file is dropped; the <img> it mounts is laid out at size sz in a
\* container of bounding rect r
onDrop(sz, r) ==
  /\ DropzoneShown
  /\ sessions < MaxSessions
  /\ sessions' = sessions + 1
  /\ cropImageSrc' = sessions + 1
  /\ showCropModal' = TRUE
  /\ toolsImage' = [present |-> TRUE, preview |-> sessions + 1, cropped |-> FALSE]
  /\ toolsError' = ""
  /\ imgSize' = sz
  /\ rect' = r
  /\ lastEvent' = Ev("drop", 0, 0)
  /\ UNCHANGED <<points, rotation, isDragging, isRotating, toolsLoading,
                 cropJob, renderError, moves>>
  /\ UNCHANGED <<enhVars, workerVars, pureVars, loaderVars>>

\* the state updates of resetImage
ResetImageUpdates ==
  /\ toolsImage' = NoImage
  /\ toolsError' = ""
  /\ showCropModal' = FALSE
  /\ cropImageSrc' = NoSrc
  /\ points' = << >>
  /\ rotation' = 0

\* the "Remove image" button of the preview pane
resetImage ==
  /\ ~renderError
  /\ ~(showCropModal /\ cropImageSrc # NoSrc)
  /\ toolsImage # NoImage
  /\ ResetImageUpdates
  /\ lastEvent' = Ev("reset", 0, 0)
  /\ UNCHANGED <<isDragging, isRotating, toolsLoading, imgSize, rect, cropJob,
                 renderError, sessions, moves>>
  /\ UNCHANGED <<enhVars, workerVars, pureVars, loaderVars>>

\* the Cancel button of the crop modal: the four setters, then resetImage()
CropCancel ==
  /\ CropShown
  /\ ResetImageUpdates
  /\ lastEvent' = Ev("cancel", 0, 0)
  /\ UNCHANGED <<isDragging, isRotating, toolsLoading, imgSize, rect, cropJob,
                 renderError, sessions, moves>>
  /\ UNCHANGED <<enhVars, workerVars, pureVars, loaderVars>>

-----------------------------------------------------------------------------
(* ImageTools.tsx: applyCrop, handleCropComplete *)

MinOf(S) == CHOOSE m \in S : \A n \in S : m <= n
MaxOf(S) == CHOOSE m \in S : \A n \in S : m >= n

\* cropWidth <= 0 || cropHeight <= 0 of applyCrop; scaleX and scaleY are
\* positive, so the sign is that of the display-space extent
InvalidCropDimensions(pts) ==
  LET xs == {pts[k].x : k \in Present(pts)}
      ys == {pts[k].y : k \in Present(pts)}
  IN MaxOf(xs) - MinOf(xs) <= 0 \/ MaxOf(ys) - MinOf(ys) <= 0

\* the Apply Crop button, up to the first await (disabled while loading)
handleCropCompleteStart ==
  /\ CropShown
  /\ ~toolsLoading
  /\ lastEvent' = Ev("apply", 0, 0)
  /\ IF cropImageSrc = NoSrc \/ Len(points) # 4
       THEN /\ toolsError' = "Invalid crop selection"
            /\ UNCHANGED <<toolsLoading, cropJob>>
       ELSE /\ toolsLoading' = TRUE
            /\ toolsError' = ""
            /\ cropJob' = [active |-> TRUE, src |-> cropImageSrc,
                           invalid |-> InvalidCropDimensions(points)]
  /\ UNCHANGED <<showCropModal, cropImageSrc, points, rotation, isDragging,
                 isRotating, toolsImage, imgSize, rect, renderError, sessions,
                 moves>>
  /\ UNCHANGED <<enhVars, workerVars, pureVars, loaderVars>>

\* applyCrop has settled: ok is FALSE when it threw (invalid dimensions,
\* image load error, no blob)
handleCropCompleteDone(ok) ==
  /\ cropJob # NoJob
  /\ ~renderError
  /\ cropJob.invalid => ~ok
  /\ cropJob' = NoJob
  /\ toolsLoading' = FALSE
  /\ lastEvent' = Ev("applied", IF ok THEN 1 ELSE 0, 0)
  /\ IF ok
       THEN /\ toolsImage' = [present |-> TRUE, preview |-> cropJob.src,
                              cropped |-> TRUE]
            /\ showCropModal' = FALSE
            /\ cropImageSrc' = NoSrc
            /\ points' = << >>
            /\ rotation' = 0
            /\ UNCHANGED toolsError
       ELSE /\ toolsError' = "Cropping failed"
            /\ UNCHANGED <<toolsImage, showCropModal, cropImageSrc, points,
                           rotation>>
  /\ UNCHANGED <<isDragging, isRotating, imgSize, rect, renderError, sessions,
                 moves>>
  /\ UNCHANGED <<enhVars, workerVars, pureVars, loaderVars>>

-----------------------------------------------------------------------------
(* PrivacyPolicy.tsx (DigitalImageEnhancer): native OpenCV handles *)

\* every local that holds a cv.Mat / cv.MatVector in applyManualCrop and
\* handleAutoEnhance; s is the Mat handle returned by channels.get(1)
Handles == {"src", "rgb", "hsv", "channels", "s", "sharpDst", "kernel",
            "dstPoints", "srcPoints", "transform", "warped"}

\* the native state of one invocation: each local is unset ("none"), holds
\* a live handle or holds a deleted one; dels counts the delete() calls;
\* misuse records a cv call on a handle that is not live
Fresh == [mats |-> [h \in Handles |-> "none"],
          dels |-> [h \in Handles |-> 0],
          misuse |-> FALSE]

Alloc(n, hs) ==
  [n EXCEPT !.mats = [h \in Handles |-> IF h \in hs THEN "live" ELSE n.mats[h]]]

Use(n, hs) ==
  [n EXCEPT !.misuse = n.misuse \/ \E h \in hs : n.mats[h] # "live"]

\* h.delete()
Delete(n, h) ==
  [n EXCEPT !.mats[h] = "deleted", !.dels[h] = n.dels[h] + 1]

\* h.isDeleted()
IsDeleted(n, h) == n.mats[h] = "deleted"

RECURSIVE DeleteAll(_, _)
DeleteAll(n, hs) ==
  IF hs = << >> THEN n ELSE DeleteAll(Delete(n, Head(hs)), Tail(hs))

LiveCount(n) == Cardinality({h \in Handles : n.mats[h] = "live"})

\* one statement of a pipeline: the handles it creates, reads and deletes,
\* whether it can throw, and the mode it runs in ("both", "auto": only
\* when isInitial, "manual": only when not)
Stmt(a, u, d, t, o) ==
  [alloc |-> a, uses |-> u, del |-> d, throws |-> t, only |-> o]

Applies(st, isInitial) ==
  \/ st.only = "both"
  \/ st.only = "auto" /\ isInitial
  \/ st.only = "manual" /\ ~isInitial

DoStmt(n, st) == DeleteAll(Alloc(Use(n, st.uses), st.alloc), st.del)

\* the native state after the first k statements
RECURSIVE RunStmts(_, _, _, _)
RunStmts(n, stmts, k, isInitial) ==
  IF k = 0 THEN n
  ELSE LET m == RunStmts(n, stmts, k - 1, isInitial)
       IN IF Applies(stmts[k], isInitial) THEN DoStmt(m, stmts[k]) ELSE m

\* the statements that can throw in the given mode
ThrowPoints(stmts, isInitial) ==
  {k \in 1..Len(stmts) : stmts[k].throws /\ Applies(stmts[k], isInitial)}

\* applyManualCrop, lines 625-658
CropStmts == <<
  Stmt({"src"}, {}, << >>, TRUE, "both"),           \* matFromImageData
  Stmt({"dstPoints"}, {}, << >>, TRUE, "both"),     \* new cv.Mat(4, 1, ..)
  Stmt({}, {"dstPoints"}, << >>, FALSE, "both"),    \* dstPoints.data32F.set
  Stmt({"srcPoints"}, {}, << >>, TRUE, "both"),     \* new cv.Mat(4, 1, ..)
  Stmt({}, {"srcPoints"}, << >>, FALSE, "both"),    \* srcPoints.data32F.set
  Stmt({"transform"}, {"srcPoints", "dstPoints"}, << >>, TRUE, "both"),
                                                    \* getPerspectiveTransform
  Stmt({"warped"}, {}, << >>, TRUE, "both"),        \* new cv.Mat()
  Stmt({}, {"src", "warped", "transform"}, << >>, TRUE, "both"),
                                                    \* warpPerspective
  Stmt({}, {"warped"}, << >>, TRUE, "both"),        \* probe grid; throws
                                                    \* 'empty image'
  Stmt({}, {"warped"}, << >>, TRUE, "both") >>      \* imshow

\* applyManualCrop, lines 664-668
CropRelease(n) ==
  DeleteAll(n, <<"src", "srcPoints", "dstPoints", "transform", "warped">>)

\* handleAutoEnhance, lines 816-889
EnhanceStmts == <<
  Stmt({"src"}, {}, << >>, TRUE, "both"),           \* matFromImageData
  Stmt({"rgb"}, {}, << >>, TRUE, "both"),           \* new cv.Mat()
  Stmt({}, {"src", "rgb"}, << >>, TRUE, "both"),    \* cvtColor RGBA2RGB
  Stmt({}, {"rgb"}, << >>, FALSE, "both"),          \* gamma, contrast loops
  Stmt({"hsv"}, {}, << >>, TRUE, "both"),           \* new cv.Mat()
  Stmt({}, {"rgb", "hsv"}, << >>, TRUE, "both"),    \* cvtColor RGB2HSV
  Stmt({"channels"}, {}, << >>, TRUE, "both"),      \* new cv.MatVector()
  Stmt({}, {"hsv", "channels"}, << >>, TRUE, "both"),  \* split
  Stmt({"s"}, {"channels"}, << >>, TRUE, "both"),   \* channels.get(1)
  Stmt({}, {"s"}, << >>, FALSE, "both"),            \* saturation loop
  Stmt({}, {"channels", "hsv"}, << >>, TRUE, "both"),  \* merge
  Stmt({}, {"hsv", "rgb"}, << >>, TRUE, "both"),    \* cvtColor HSV2RGB
  Stmt({"sharpDst"}, {}, << >>, TRUE, "auto"),      \* new cv.Mat()
  Stmt({"kernel"}, {}, << >>, TRUE, "auto"),        \* cv.Mat.eye
  Stmt({}, {"kernel"}, << >>, FALSE, "auto"),       \* kernel.data32F.set
  Stmt({}, {"rgb", "sharpDst", "kernel"}, << >>, TRUE, "auto"),  \* filter2D
  Stmt({}, {}, <<"kernel">>, FALSE, "auto"),        \* kernel.delete()
  Stmt({}, {"rgb"}, << >>, TRUE, "manual"),         \* imshow(canvas, rgb)
  Stmt({}, {"sharpDst"}, << >>, TRUE, "auto") >>    \* imshow(canvas, sharpDst)

\* let finalDst = rgb; if (isInitial) { ... finalDst = sharpDst; }
FinalDst(isInitial) == IF isInitial THEN "sharpDst" ELSE "rgb"

\* applyManualCrop run from a fresh state up to a throw of statement t
\* (t = 0: before the first statement) or, for t past the last statement,
\* to its end
CropRun ==
  [t \in 0..(Len(CropStmts) + 1) |->
     RunStmts(Fresh, CropStmts,
              IF t = Len(CropStmts) + 1 THEN Len(CropStmts) ELSE Max(t, 1) - 1,
              FALSE)]

\* the places where a run can be cut short: before the first statement (the
\* awaited createImageBitmap rejects) and at each statement that can throw;
\* of several places that leave the same handles behind, the first stands
\* for all
Outcomes(run, pts) ==
  {t \in pts \cup {0} : \A u \in pts \cup {0} : u < t => run[u] # run[t]}

CropThrowPoints == Outcomes(CropRun, ThrowPoints(CropStmts, FALSE))

\* the try block of handleAutoEnhance run likewise, for either isInitial
EnhanceRun ==
  [isInitial \in BOOLEAN |->
     [t \in 0..(Len(EnhanceStmts) + 1) |->
        RunStmts(Fresh, EnhanceStmts,
                 IF t = Len(EnhanceStmts) + 1 THEN Len(EnhanceStmts)
                 ELSE Max(t, 1) - 1,
                 isInitial)]]

EnhanceThrowPoints ==
  [isInitial \in BOOLEAN |->
     Outcomes(EnhanceRun[isInitial], ThrowPoints(EnhanceStmts, isInitial))]

\* handleAutoEnhance, lines 901-906
ReleaseOnSuccess(n, finalDst) ==
  LET n1 == Delete(n, "src")
      n2 == IF "rgb" # finalDst THEN Delete(n1, "rgb") ELSE n1
      n3 == IF n2.mats["hsv"] # "none" THEN Delete(n2, "hsv") ELSE n2
      n4 == IF n3.mats["channels"] # "none" THEN Delete(n3, "channels") ELSE n3
      n5 == IF n4.mats["sharpDst"] # "none" /\ "sharpDst" # finalDst
              THEN Delete(n4, "sharpDst") ELSE n4
  IN Delete(n5, finalDst)

RECURSIVE ReleaseEach(_, _, _)
ReleaseEach(n, hs, guarded) ==
  IF hs = << >> THEN n
  ELSE LET h == Head(hs)
           m == IF n.mats[h] # "none" /\ (guarded => ~IsDeleted(n, h))
                  THEN Delete(n, h) ELSE n
       IN ReleaseEach(m, Tail(hs), guarded)

\* the finally block without its !isDeleted() tests
FinallyReleaseUnguarded(n) ==
  ReleaseEach(n, <<"src", "rgb", "hsv", "channels", "sharpDst">>, FALSE)

\* handleAutoEnhance, lines 918-922: if (h && !h.isDeleted()) h.delete()
FinallyRelease(n) ==
  ReleaseEach(n, <<"src", "rgb", "hsv", "channels", "sharpDst">>, TRUE)

-----------------------------------------------------------------------------
(* PrivacyPolicy.tsx (DigitalImageEnhancer): image state and invocations *)

NoImg == [kind |-> "null"]               \* image === null, a null field
Undefined == [kind |-> "undefined"]      \* a field that was never set
Raw(id) == [kind |-> "raw", src |-> id]
Cropped(id) == [kind |-> "cropped", src |-> id]
Preprocessed(id) == [kind |-> "preprocessed", src |-> id]

\* the data URL produced by invocation req of handleAutoEnhance
Enhanced(input, enh, q, isInitial, req) ==
  [kind |-> "enhanced", of |-> input, enh |-> enh, q |-> q,
   auto |-> isInitial, req |-> req]

Truthy(v) == v.kind # "null" /\ v.kind # "undefined"

defaultEnhancements == [brightness |-> 100, contrast |-> 100, saturation |-> 100]

Done == [stage |-> "done"]
InFlight == {id \in 1..Len(jobs) : jobs[id].stage # "done"}

\* the enhancer is past its 'Loading image processing library...' screen
Rendered == cvReady /\ ~renderError

editorRest == <<rotation, isDragging, isRotating, toolsImage, toolsLoading,
                toolsError, cropJob, renderError, moves, lastEvent>>

\* an invocation ends: what it left undeleted is lost to the native heap
EndRun(id, kind, isInitial, n, ok) ==
  /\ jobs' = [jobs EXCEPT ![id] = Done]
  /\ leaked' = leaked + LiveCount(n)
  /\ failed' = (failed \/ ~ok)
  /\ lastRun' = [kind |-> kind, auto |-> isInitial, ok |-> ok, dels |-> n.dels,
                 misuse |-> n.misuse, live |-> LiveCount(n)]

\* initOpenCV() resolved: setCvReady(true)
initOpenCVResolved ==
  /\ ~cvReady
  /\ cvReady' = TRUE
  /\ UNCHANGED <<image, loading, error, enhancements, quality, jobs, leaked,
                 failed, lastRun>>
  /\ UNCHANGED editorVars
  /\ UNCHANGED <<workerVars, pureVars, loaderVars>>

\* onDrop of the enhancer: the file was read and resized, the modal opens
\* (the container rectangle is measured by handleMouseMove alone)
enhancer_onDrop(sz) ==
  /\ Rendered
  /\ image = NoImg
  /\ ~showCropModal
  /\ sessions < MaxDrops
  /\ sessions' = sessions + 1
  /\ cropImageSrc' = sessions + 1
  /\ showCropModal' = TRUE
  /\ imgSize' = sz
  /\ UNCHANGED <<points, rect, editorRest>>
  /\ UNCHANGED <<enhVars, workerVars, pureVars, loaderVars>>

\* the Cancel button of the enhancer's crop modal
enhancer_CropCancel ==
  /\ Rendered
  /\ CropShown
  /\ showCropModal' = FALSE
  /\ cropImageSrc' = NoSrc
  /\ points' = << >>
  /\ UNCHANGED <<imgSize, rect, sessions, editorRest>>
  /\ UNCHANGED <<enhVars, workerVars, pureVars, loaderVars>>

\* a handleCropComplete call that returned at its guard: nothing allocated
Rejected == [kind |-> "rejected", auto |-> FALSE, ok |-> FALSE,
             dels |-> Fresh.dels, misuse |-> FALSE, live |-> 0]

\* handleCropComplete up to the first await of applyManualCrop; on an
\* invalid selection it returns at once and sets nothing
enhancer_handleCropComplete ==
  /\ Rendered
  /\ CropShown
  /\ Len(jobs) < MaxCalls
  /\ IF cropImageSrc = NoSrc \/ Len(points) # 4
       THEN /\ lastRun' = Rejected
            /\ UNCHANGED <<loading, jobs>>
       ELSE /\ loading' = TRUE
            /\ jobs' = Append(jobs, [kind |-> "crop", stage |-> "bitmap",
                                     src |-> cropImageSrc, native |-> Fresh])
            /\ UNCHANGED lastRun
  /\ UNCHANGED <<cvReady, image, error, enhancements, quality, leaked, failed>>
  /\ UNCHANGED editorVars
  /\ UNCHANGED <<workerVars, pureVars, loaderVars>>

\* applyManualCrop after createImageBitmap: t = 0 the bitmap was rejected,
\* t a statement of CropStmts: that statement threw, t past the last
\* statement: the warped image was drawn and canvas.toBlob is awaited.
\* A throw leaves applyManualCrop at once (it has no try block) and lands
\* in the catch and finally of handleCropComplete.
applyManualCrop_bitmap(id, t) ==
  /\ id \in InFlight /\ jobs[id].kind = "crop" /\ jobs[id].stage = "bitmap"
  /\ t = Len(CropStmts) + 1 \/ t \in CropThrowPoints
  /\ IF t = Len(CropStmts) + 1
       THEN /\ jobs' = [jobs EXCEPT ![id].stage = "encode",
                                   ![id].native = CropRun[t]]
            /\ UNCHANGED <<loading, error, leaked, failed, lastRun>>
       ELSE /\ EndRun(id, "crop", FALSE, CropRun[t], FALSE)
            /\ error' = "Cropping/Preprocessing failed"
            /\ loading' = FALSE
  /\ UNCHANGED <<cvReady, image, enhancements, quality>>
  /\ UNCHANGED editorVars
  /\ UNCHANGED <<workerVars, pureVars, loaderVars>>

\* applyManualCrop after toBlob / blobToDataURL: the five deletes and the
\* return, or a rejected await
applyManualCrop_encoded(id, ok) ==
  /\ id \in InFlight /\ jobs[id].kind = "crop" /\ jobs[id].stage = "encode"
  /\ IF ok
       THEN /\ jobs' = [jobs EXCEPT ![id].stage = "preprocess",
                                   ![id].native = Fresh]
            /\ leaked' = leaked + LiveCount(CropRelease(jobs[id].native))
            /\ lastRun' = [kind |-> "crop", auto |-> FALSE, ok |-> TRUE,
                           dels |-> CropRelease(jobs[id].native).dels,
                           misuse |-> CropRelease(jobs[id].native).misuse,
                           live |-> LiveCount(CropRelease(jobs[id].native))]
            /\ UNCHANGED <<loading, error, failed>>
       ELSE /\ EndRun(id, "crop", FALSE, jobs[id].native, FALSE)
            /\ error' = "Cropping/Preprocessing failed"
            /\ loading' = FALSE
  /\ UNCHANGED <<cvReady, image, enhancements, quality>>
  /\ UNCHANGED editorVars
  /\ UNCHANGED <<workerVars, pureVars, loaderVars>>

\* handleCropComplete after preprocessImage settled
enhancer_cropPreprocessed(id, ok) ==
  /\ id \in InFlight /\ jobs[id].kind = "crop" /\ jobs[id].stage = "preprocess"
  /\ jobs' = [jobs EXCEPT ![id] = Done]
  /\ loading' = FALSE
  /\ failed' = (failed \/ ~ok)
  /\ IF ok
       THEN /\ image' = [raw |-> Raw(jobs[id].src),
                         preprocessed |-> Preprocessed(jobs[id].src),
                         preview |-> Cropped(jobs[id].src),
                         enhanced |-> Cropped(jobs[id].src),
                         fullEnhanced |-> Cropped(jobs[id].src)]
            /\ showCropModal' = FALSE
            /\ cropImageSrc' = NoSrc
            /\ points' = << >>
            /\ error' = ""
       ELSE /\ error' = "Cropping/Preprocessing failed"
            /\ UNCHANGED <<image, showCropModal, cropImageSrc, points>>
  /\ UNCHANGED <<cvReady, enhancements, quality, leaked, lastRun>>
  /\ UNCHANGED <<imgSize, rect, sessions, editorRest>>
  /\ UNCHANGED <<workerVars, pureVars, loaderVars>>

\* handleAutoEnhance(imageSrc, isInitial) up to its first await, called from
\* a render in which enhancements and quality have their current values
StartEnhance(imageSrc, isInitial) ==
  IF ~cvReady
    THEN /\ error' = "Image processing not ready."
         /\ UNCHANGED <<loading, jobs, failed>>
  ELSE IF ~Truthy(imageSrc)
    THEN \* dataURLtoBlob throws: catch, finally
         /\ error' = "Enhancement failed"
         /\ loading' = FALSE
         /\ failed' = TRUE
         /\ UNCHANGED jobs
  ELSE /\ loading' = TRUE
       /\ error' = ""
       /\ jobs' = Append(jobs, [kind |-> "enh", stage |-> "bitmap",
                                input |-> imageSrc, enh |-> enhancements,
                                q |-> quality, auto |-> isInitial,
                                native |-> Fresh])
       /\ UNCHANGED failed

\* the Auto Enhance button (disabled while loading); every call site of
\* this component passes one argument, so isInitial is false there
AutoEnhanceClick(isInitial) ==
  /\ Rendered
  /\ image # NoImg
  /\ ~loading
  /\ Len(jobs) < MaxCalls
  /\ StartEnhance(image.preprocessed, isInitial)
  /\ UNCHANGED <<cvReady, image, enhancements, quality, leaked, lastRun>>
  /\ UNCHANGED editorVars
  /\ UNCHANGED <<workerVars, pureVars, loaderVars>>

\* the Reset link of the enhancement controls
ResetClick ==
  /\ Rendered
  /\ image # NoImg
  /\ Len(jobs) < MaxCalls
  /\ enhancements' = defaultEnhancements
  /\ StartEnhance(image.preprocessed, FALSE)
  /\ UNCHANGED <<cvReady, image, quality, leaked, lastRun>>
  /\ UNCHANGED editorVars
  /\ UNCHANGED <<workerVars, pureVars, loaderVars>>

handleEnhancementChange(key, value) ==
  /\ Rendered
  /\ image # NoImg
  /\ Len(jobs) < MaxCalls
  /\ enhancements' = [enhancements EXCEPT ![key] = value]
  /\ StartEnhance(image.preprocessed, FALSE)
  /\ UNCHANGED <<cvReady, image, quality, leaked, lastRun>>
  /\ UNCHANGED editorVars
  /\ UNCHANGED <<workerVars, pureVars, loaderVars>>

handleQualityChange(value) ==
  /\ Rendered
  /\ image # NoImg
  /\ Len(jobs) < MaxCalls
  /\ quality' = value
  /\ IF Truthy(image.preprocessed)
       THEN StartEnhance(image.preprocessed, FALSE)
       ELSE UNCHANGED <<loading, error, jobs, failed>>
  /\ UNCHANGED <<cvReady, image, enhancements, leaked, lastRun>>
  /\ UNCHANGED editorVars
  /\ UNCHANGED <<workerVars, pureVars, loaderVars>>

\* handleAutoEnhance after createImageBitmap: t = 0 the bitmap was rejected,
\* t a statement of EnhanceStmts: that statement threw (catch, finally),
\* t past the last statement: canvas.toBlob is awaited
handleAutoEnhance_bitmap(id, t) ==
  /\ id \in InFlight /\ jobs[id].kind = "enh" /\ jobs[id].stage = "bitmap"
  /\ t = Len(EnhanceStmts) + 1 \/ t \in EnhanceThrowPoints[jobs[id].auto]
  /\ IF t = Len(EnhanceStmts) + 1
       THEN /\ jobs' = [jobs EXCEPT ![id].stage = "encode",
                                   ![id].native = EnhanceRun[jobs[id].auto][t]]
            /\ UNCHANGED <<loading, error, leaked, failed, lastRun>>
       ELSE /\ EndRun(id, "enh", jobs[id].auto,
                      FinallyRelease(EnhanceRun[jobs[id].auto][t]), FALSE)
            /\ error' = "Enhancement failed"
            /\ loading' = FALSE
  /\ UNCHANGED <<cvReady, image, enhancements, quality>>
  /\ UNCHANGED editorVars
  /\ UNCHANGED <<workerVars, pureVars, loaderVars>>

\* a setImage that stores the result as the preprocessed bitmap as well
SetEnhancedOverPreprocessed(prev, result, isInitial) ==
  IF prev = NoImg
    THEN [raw |-> Undefined, preprocessed |-> result, preview |-> Undefined,
          enhanced |-> result,
          fullEnhanced |-> IF isInitial THEN result ELSE NoImg]
    ELSE [prev EXCEPT !.enhanced = result, !.preprocessed = result]

\* setImage((prev) => ({...prev!, enhanced, fullEnhanced: isInitial ?
\* enhanced : prev?.fullEnhanced || null}))
SetEnhanced(prev, result, isInitial) ==
  IF prev = NoImg
    THEN [raw |-> Undefined, preprocessed |-> Undefined, preview |-> Undefined,
          enhanced |-> result,
          fullEnhanced |-> IF isInitial THEN result ELSE NoImg]
    ELSE [prev EXCEPT !.enhanced = result,
                      !.fullEnhanced = IF isInitial THEN result
                                       ELSE IF Truthy(prev.fullEnhanced)
                                         THEN prev.fullEnhanced ELSE NoImg]

\* handleAutoEnhance after toBlob / blobToDataURL: the deletes of the
\* success path, setImage and the finally block; or a rejected await,
\* the catch and the finally block
handleAutoEnhance_encoded(id, ok) ==
  /\ id \in InFlight /\ jobs[id].kind = "enh" /\ jobs[id].stage = "encode"
  /\ loading' = FALSE
  /\ IF ok
       THEN /\ EndRun(id, "enh", jobs[id].auto,
                      FinallyRelease(ReleaseOnSuccess(jobs[id].native,
                                       FinalDst(jobs[id].auto))), TRUE)
            /\ image' = SetEnhanced(image,
                          Enhanced(jobs[id].input, jobs[id].enh, jobs[id].q,
                                   jobs[id].auto, id), jobs[id].auto)
            /\ UNCHANGED error
       ELSE /\ EndRun(id, "enh", jobs[id].auto,
                      FinallyRelease(jobs[id].native), FALSE)
            /\ error' = "Enhancement failed"
            /\ UNCHANGED image
  /\ UNCHANGED <<cvReady, enhancements, quality>>
  /\ UNCHANGED editorVars
  /\ UNCHANGED <<workerVars, pureVars, loaderVars>>

\* the X button of the preview pane
enhancer_resetImage ==
  /\ Rendered
  /\ image # NoImg
  /\ image' = NoImg
  /\ enhancements' = defaultEnhancements
  /\ error' = ""
  /\ loading' = FALSE
  /\ UNCHANGED <<cvReady, quality, jobs, leaked, failed, lastRun>>
  /\ UNCHANGED editorVars
  /\ UNCHANGED <<workerVars, pureVars, loaderVars>>

-----------------------------------------------------------------------------
(* unnamed/part_004 (DigitalImageEnhancer): enhancement in a Worker *)

\* the slider moved in the exploration of this variant
WorkerSliders == {<<"brightness", 150>>}

WEv(o, i) == [op |-> o, id |-> i]

WorkerTookTooLong == "Image processing took too long"

\* the object URL posted back by the worker of invocation req
WorkerResult(src, enh, req) ==
  [kind |-> "enhanced", of |-> src, enh |-> enh, req |-> req]

WInFlight == {id \in 1..Len(wJobs) : wJobs[id].stage # "done"}

\* the effect on useEffect's initialize() of initOpenCV settling: resolved
\* (window.cv was there, or 'opencv-ready' arrived with it) or rejected
\* (the 30 s timeout, or 'opencv-ready' without window.cv)
worker_initOpenCVSettled(ok) ==
  /\ initializingCV
  /\ initializingCV' = FALSE
  /\ wCvReady' = ok
  /\ wError' = IF ok THEN wError ELSE "Failed to load image processing library"
  /\ wLast' = WEv("init", 0)
  /\ UNCHANGED <<wImage, wLoading, wEnhancements, wJobs>>
  /\ UNCHANGED <<editorVars, enhVars, pureVars, loaderVars>>

\* handleAutoEnhance(imageSrc) of the render in which cvReady and
\* enhancements have the given values, up to its first await
StartWorkerEnhance(imageSrc, cv, enh) ==
  /\ wLoading' = TRUE
  /\ IF ~cv
       THEN \* await waitForCvReady()
            /\ wJobs' = Append(wJobs, [stage |-> "waitCv", cv |-> cv,
                                       src |-> imageSrc, enh |-> enh,
                                       worker |-> "none", timer |-> "none",
                                       ticks |-> 0])
            /\ UNCHANGED wError
       ELSE \* new Worker(...), then the awaited fetch / createImageBitmap
            /\ wJobs' = Append(wJobs, [stage |-> "bitmap", cv |-> cv,
                                       src |-> imageSrc, enh |-> enh,
                                       worker |-> "running", timer |-> "none",
                                       ticks |-> 0])
            /\ wError' = ""

\* onDrop is useCallback(..., []): it keeps the handleAutoEnhance of the
\* first render, whose cvReady is false and whose enhancements are the
\* defaults
worker_onDrop(src) ==
  /\ ~initializingCV
  /\ wImage = NoImg
  /\ Len(wJobs) < MaxWorkerCalls
  /\ wImage' = [original |-> Raw(src), preview |-> Raw(src), enhanced |-> NoImg]
  /\ wError' = ""
  /\ wLoading' = TRUE
  /\ wJobs' = Append(wJobs, [stage |-> "waitCv", cv |-> FALSE,
                             src |-> Raw(src), enh |-> defaultEnhancements,
                             worker |-> "none", timer |-> "none", ticks |-> 0])
  /\ wLast' = WEv("drop", Len(wJobs) + 1)
  /\ UNCHANGED <<initializingCV, wCvReady, wEnhancements>>
  /\ UNCHANGED <<editorVars, enhVars, pureVars, loaderVars>>

\* the Auto Enhance button (disabled while loading)
worker_AutoEnhanceClick ==
  /\ ~initializingCV
  /\ wImage # NoImg
  /\ ~wLoading
  /\ Len(wJobs) < MaxWorkerCalls
  /\ StartWorkerEnhance(wImage.original, wCvReady, wEnhancements)
  /\ wLast' = WEv("enhance", Len(wJobs) + 1)
  /\ UNCHANGED <<initializingCV, wCvReady, wImage, wEnhancements>>
  /\ UNCHANGED <<editorVars, enhVars, pureVars, loaderVars>>

\* a slider: setEnhancements, then handleAutoEnhance of the current render
worker_handleEnhancementChange(key, value) ==
  /\ ~initializingCV
  /\ wImage # NoImg
  /\ Len(wJobs) < MaxWorkerCalls
  /\ wEnhancements' = [wEnhancements EXCEPT ![key] = value]
  /\ StartWorkerEnhance(wImage.original, wCvReady, wEnhancements)
  /\ wLast' = WEv("enhance", Len(wJobs) + 1)
  /\ UNCHANGED <<initializingCV, wCvReady, wImage>>
  /\ UNCHANGED <<editorVars, enhVars, pureVars, loaderVars>>

\* one tick of the interval of waitForCvReady: it tests the cvReady its
\* closure captured and resolves when that is true; there is no timeout,
\* so the interval ticks for ever (ticks counts them modulo MaxTicks)
waitForCvReady_tick(id) ==
  /\ id \in WInFlight /\ wJobs[id].stage = "waitCv"
  /\ IF wJobs[id].cv
       THEN /\ wJobs' = [wJobs EXCEPT ![id].stage = "bitmap",
                                      ![id].worker = "running"]
            /\ wLoading' = TRUE
            /\ wError' = ""
       ELSE /\ wJobs' = [wJobs EXCEPT
                             ![id].ticks = (wJobs[id].ticks + 1) % MaxTicks]
            /\ UNCHANGED <<wLoading, wError>>
  /\ wLast' = WEv("tick", id)
  /\ UNCHANGED <<initializingCV, wCvReady, wImage, wEnhancements>>
  /\ UNCHANGED <<editorVars, enhVars, pureVars, loaderVars>>

\* fetch / createImageBitmap settled: postMessage and setTimeout(30000),
\* or the catch block (which leaves the Worker it created running)
worker_bitmap(id, ok) ==
  /\ id \in WInFlight /\ wJobs[id].stage = "bitmap"
  /\ IF ok
       THEN /\ wJobs' = [wJobs EXCEPT ![id].stage = "posted",
                                      ![id].timer = "armed"]
            /\ UNCHANGED <<wLoading, wError>>
       ELSE /\ wJobs' = [wJobs EXCEPT ![id].stage = "done"]
            /\ wError' = "Error enhancing image"
            /\ wLoading' = FALSE
  /\ wLast' = WEv("bitmap", id)
  /\ UNCHANGED <<initializingCV, wCvReady, wImage, wEnhancements>>
  /\ UNCHANGED <<editorVars, enhVars, pureVars, loaderVars>>

\* the callback of workerTimeout without its worker.terminate()
workerTimeoutKeepsWorker(id) ==
  /\ id \in WInFlight /\ wJobs[id].timer = "armed"
  /\ wJobs' = [wJobs EXCEPT ![id].timer = "fired"]
  /\ wError' = WorkerTookTooLong
  /\ wLoading' = FALSE
  /\ wLast' = WEv("timeout", id)
  /\ UNCHANGED <<initializingCV, wCvReady, wImage, wEnhancements>>
  /\ UNCHANGED <<editorVars, enhVars, pureVars, loaderVars>>

\* the callback of workerTimeout: the timer was neither cleared nor fired
workerTimeout(id) ==
  /\ id \in WInFlight /\ wJobs[id].timer = "armed"
  /\ wJobs' = [wJobs EXCEPT ![id].timer = "fired",
                            ![id].worker = "terminated",
                            ![id].stage = "done"]
  /\ wError' = WorkerTookTooLong
  /\ wLoading' = FALSE
  /\ wLast' = WEv("timeout", id)
  /\ UNCHANGED <<initializingCV, wCvReady, wImage, wEnhancements>>
  /\ UNCHANGED <<editorVars, enhVars, pureVars, loaderVars>>

\* setImage((prev) => ({...prev!, enhanced: data.result}))
WorkerSetEnhanced(prev, result) ==
  IF prev = NoImg
    THEN [original |-> Undefined, preview |-> Undefined, enhanced |-> result]
    ELSE [prev EXCEPT !.enhanced = result]

\* worker.onmessage: a message of a worker that was not terminated; the
\* worker posts {result} or, from its catch block, {error}
worker_onmessage(id, isError) ==
  /\ id \in 1..Len(wJobs)
  /\ wJobs[id].stage = "posted" \/ wJobs[id].timer = "fired"
  /\ wJobs[id].worker = "running"
  /\ wJobs' = [wJobs EXCEPT ![id].stage = "done",
                            ![id].worker = "terminated",
                            ![id].timer = IF wJobs[id].timer = "armed"
                                            THEN "cleared" ELSE wJobs[id].timer]
  /\ IF isError
       THEN wError' = "Image processing failed" /\ UNCHANGED wImage
       ELSE /\ wImage' = WorkerSetEnhanced(wImage,
                           WorkerResult(wJobs[id].src, wJobs[id].enh, id))
            /\ UNCHANGED wError
  /\ wLoading' = FALSE
  /\ wLast' = WEv(IF isError THEN "error" ELSE "message", id)
  /\ UNCHANGED <<initializingCV, wCvReady, wEnhancements>>
  /\ UNCHANGED <<editorVars, enhVars, pureVars, loaderVars>>

\* worker.onerror: the worker script failed (importScripts, an uncaught error)
worker_onerror(id) ==
  /\ id \in 1..Len(wJobs)
  /\ wJobs[id].stage = "posted" \/ wJobs[id].timer = "fired"
  /\ wJobs[id].worker = "running"
  /\ wJobs' = [wJobs EXCEPT ![id].stage = "done",
                            ![id].worker = "terminated",
                            ![id].timer = IF wJobs[id].timer = "armed"
                                            THEN "cleared" ELSE wJobs[id].timer]
  /\ wError' = "Image processing failed"
  /\ wLoading' = FALSE
  /\ wLast' = WEv("onerror", id)
  /\ UNCHANGED <<initializingCV, wCvReady, wImage, wEnhancements>>
  /\ UNCHANGED <<editorVars, enhVars, pureVars, loaderVars>>

\* the X button of the preview pane
worker_resetImage ==
  /\ ~initializingCV
  /\ wImage # NoImg
  /\ wImage' = NoImg
  /\ wEnhancements' = defaultEnhancements
  /\ wError' = ""
  /\ wLast' = WEv("reset", 0)
  /\ UNCHANGED <<initializingCV, wCvReady, wLoading, wJobs>>
  /\ UNCHANGED <<editorVars, enhVars, pureVars, loaderVars>>

-----------------------------------------------------------------------------
(* The crop editor as a state machine *)

InitCrop ==
  /\ showCropModal = FALSE
  /\ cropImageSrc = NoSrc
  /\ points = << >>
  /\ rotation = 0
  /\ isDragging = Null
  /\ isRotating = FALSE
  /\ toolsImage = NoImage
  /\ toolsLoading = FALSE
  /\ toolsError = ""
  /\ imgSize = NoSize
  /\ rect = NoSize
  /\ cropJob = NoJob
  /\ renderError = FALSE
  /\ sessions = 0
  /\ moves = 0
  /\ lastEvent = Ev("none", 0, 0)

InitEnhancer ==
  /\ cvReady = FALSE
  /\ image = NoImg
  /\ loading = FALSE
  /\ error = ""
  /\ enhancements = defaultEnhancements
  /\ quality = 80
  /\ jobs = << >>
  /\ leaked = 0
  /\ failed = FALSE
  /\ lastRun = [kind |-> "none"]

InitWorker ==
  /\ initializingCV = TRUE
  /\ wCvReady = FALSE
  /\ wImage = NoImg
  /\ wLoading = FALSE
  /\ wError = ""
  /\ wEnhancements = defaultEnhancements
  /\ wJobs = << >>
  /\ wLast = WEv("none", 0)

-----------------------------------------------------------------------------
(* index.html and PrivacyPolicy.tsx: loading OpenCV.js *)

\* resolve() and reject() of a promise that is already settled do nothing
Settle(p, outcome) == IF p = "pending" THEN outcome ELSE p

\* window.cv && window.cv.Mat && window.cv.cvtColor
CoreFunctionality == window_cv = "complete"

\* the script /opencv.js, loaded async, assigns window.cv and, when its
\* runtime is up, fills it with Mat and cvtColor
opencvLoads(c) ==
  /\ \/ window_cv = "absent"
     \/ window_cv = "partial" /\ c = "complete"
  /\ window_cv' = c
  /\ UNCHANGED <<isOpenCvReady, ready, listener, checkInterval, readyTimeout,
                 polls>>
  /\ UNCHANGED <<editorVars, enhVars, workerVars, pureVars>>

\* window.Module.onRuntimeInitialized: sets the flag and dispatches
\* 'opencv-ready'; a registered listener is handleOpenCVReady ({once: true})
onRuntimeInitialized ==
  /\ ~isOpenCvReady
  /\ isOpenCvReady' = TRUE
  /\ listener' = FALSE
  /\ ready' = IF listener
                THEN Settle(ready, IF CoreFunctionality THEN "resolved"
                                   ELSE "rejected")
                ELSE ready
  /\ UNCHANGED <<window_cv, checkInterval, readyTimeout, polls>>
  /\ UNCHANGED <<editorVars, enhVars, workerVars, pureVars>>

\* the mount effect calls initOpenCV(): resolved at once when the library
\* is complete and flagged ready, else a pending promise with a listener,
\* an interval of 100 ms and a timeout of 30 s
initOpenCV ==
  /\ ready = "none"
  /\ IF CoreFunctionality /\ isOpenCvReady
       THEN /\ ready' = "resolved"
            /\ UNCHANGED <<listener, checkInterval, readyTimeout>>
       ELSE /\ ready' = "pending"
            /\ listener' = TRUE
            /\ checkInterval' = TRUE
            /\ readyTimeout' = "armed"
  /\ UNCHANGED <<window_cv, isOpenCvReady, polls>>
  /\ UNCHANGED <<editorVars, enhVars, workerVars, pureVars>>

\* the interval callback, before the timeout is due
checkInterval_tick ==
  /\ checkInterval
  /\ polls < MaxPolls
  /\ polls' = polls + 1
  /\ IF CoreFunctionality /\ isOpenCvReady
       THEN /\ checkInterval' = FALSE
            /\ listener' = FALSE
            /\ ready' = Settle(ready, "resolved")
       ELSE UNCHANGED <<checkInterval, listener, ready>>
  /\ UNCHANGED <<window_cv, isOpenCvReady, readyTimeout>>
  /\ UNCHANGED <<editorVars, enhVars, workerVars, pureVars>>

\* the timeout callback, due once the interval has run its MaxPolls times:
\* clears the interval, removes the listener and rejects if window.cv is
\* missing or incomplete
readyTimeoutFires ==
  /\ readyTimeout = "armed"
  /\ polls = MaxPolls \/ ~checkInterval
  /\ readyTimeout' = "fired"
  /\ checkInterval' = FALSE
  /\ listener' = FALSE
  /\ ready' = IF ~CoreFunctionality THEN Settle(ready, "rejected") ELSE ready
  /\ UNCHANGED <<window_cv, isOpenCvReady, polls>>
  /\ UNCHANGED <<editorVars, enhVars, workerVars, pureVars>>

\* .then(() => setCvReady(true))
initOpenCV_then ==
  /\ ready = "resolved"
  /\ ~cvReady
  /\ cvReady' = TRUE
  /\ UNCHANGED <<image, loading, error, enhancements, quality, jobs, leaked,
                 failed, lastRun>>
  /\ UNCHANGED editorVars
  /\ UNCHANGED <<workerVars, pureVars, loaderVars>>

\* .catch((err) => setError('Failed to load OpenCV: ' + err.message))
initOpenCV_catch ==
  /\ ready = "rejected"
  /\ error = ""
  /\ error' = "Failed to load OpenCV"
  /\ UNCHANGED <<cvReady, image, loading, enhancements, quality, jobs, leaked,
                 failed, lastRun>>
  /\ UNCHANGED editorVars
  /\ UNCHANGED <<workerVars, pureVars, loaderVars>>

InitLoader ==
  /\ window_cv = "absent"
  /\ isOpenCvReady = FALSE
  /\ ready = "none"
  /\ listener = FALSE
  /\ checkInterval = FALSE
  /\ readyTimeout = "none"
  /\ polls = 0

\* no pure step is under examination
NoCalc == [fn |-> "none"]

InitPure == calc = NoCalc

Init == InitCrop /\ InitEnhancer /\ InitWorker /\ InitPure /\ InitLoader

NextCrop ==
  \/ \E sz \in ImgSizes : \E r \in RectsFor(sz) : onDrop(sz, r)
  \/ handleImageLoad
  \/ \E index \in 0..4 : handleMouseDown(index)
  \/ \E p \in Pointers : handleMouseMove(p[1], p[2])
  \/ handleMouseUp
  \/ CropCancel
  \/ resetImage
  \/ handleCropCompleteStart
  \/ \E ok \in BOOLEAN : handleCropCompleteDone(ok)

SpecCrop == Init /\ [][NextCrop]_vars

-----------------------------------------------------------------------------
(* The enhancer (crop modal, rectify, enhance) as a state machine *)

\* the steps of the enhancer other than a press of Auto Enhance
NextCommon ==
  \/ initOpenCVResolved
  \/ \E sz \in ImgSizes : enhancer_onDrop(sz)
  \/ Rendered /\ handleImageLoad
  \/ enhancer_CropCancel
  \/ enhancer_handleCropComplete
  \/ \E id \in 1..MaxCalls : \E t \in 0..(Len(CropStmts) + 1) :
       applyManualCrop_bitmap(id, t)
  \/ \E id \in 1..MaxCalls : \E ok \in BOOLEAN : applyManualCrop_encoded(id, ok)
  \/ \E id \in 1..MaxCalls : \E ok \in BOOLEAN : enhancer_cropPreprocessed(id, ok)
  \/ ResetClick
  \/ \E key \in EnhKeys : \E value \in SliderValues :
       handleEnhancementChange(key, value)
  \/ \E value \in QualityValues : handleQualityChange(value)
  \/ \E id \in 1..MaxCalls : \E t \in 0..(Len(EnhanceStmts) + 1) :
       handleAutoEnhance_bitmap(id, t)
  \/ \E id \in 1..MaxCalls : \E ok \in BOOLEAN : handleAutoEnhance_encoded(id, ok)
  \/ enhancer_resetImage

\* the component as its own call sites drive it: isInitial is never passed
Next == AutoEnhanceClick(FALSE) \/ NextCommon

Spec == Init /\ [][Next]_vars

\* handleAutoEnhance as a function of both its arguments
NextAuto == (\E isInitial \in BOOLEAN : AutoEnhanceClick(isInitial)) \/ NextCommon

SpecAuto == Init /\ [][NextAuto]_vars

-----------------------------------------------------------------------------
(* The worker-based enhancer as a state machine *)

\* what the user does
NextWorkerUser ==
  \/ \E src \in 1..MaxWorkerCalls : src = Len(wJobs) + 1 /\ worker_onDrop(src)
  \/ worker_AutoEnhanceClick
  \/ \E sl \in WorkerSliders : worker_handleEnhancementChange(sl[1], sl[2])
  \/ worker_resetImage

\* what timers, promises and the page's side of the worker do
NextWorkerSystem ==
  \/ \E ok \in BOOLEAN : worker_initOpenCVSettled(ok)
  \/ \E id \in 1..MaxWorkerCalls : waitForCvReady_tick(id)
  \/ \E id \in 1..MaxWorkerCalls : \E ok \in BOOLEAN : worker_bitmap(id, ok)
  \/ \E id \in 1..MaxWorkerCalls : workerTimeout(id)

\* what the worker does: it may reply, fail, or stay silent
NextWorkerReply ==
  \/ \E id \in 1..MaxWorkerCalls : \E isError \in BOOLEAN :
       worker_onmessage(id, isError)
  \/ \E id \in 1..MaxWorkerCalls : worker_onerror(id)

NextWorker == NextWorkerUser \/ NextWorkerSystem \/ NextWorkerReply

SpecWorker == Init /\ [][NextWorker]_vars

\* timers fire and awaited promises settle; the user and the worker are
\* under no obligation
SpecWorkerLive == SpecWorker /\ WF_vars(NextWorkerSystem)

-----------------------------------------------------------------------------
(* Native buffers and overlapping enhancements *)

\* the request whose result is displayed as image.enhanced (0: none)
ShownReq ==
  IF image # NoImg /\ image.enhanced.kind = "enhanced"
    THEN image.enhanced.req ELSE 0

\* the locals that the success path and the finally block both release
Released == {"src", "rgb", "hsv", "channels", "sharpDst"}

\* C1: every native buffer allocated during one rectify or enhance
\* invocation is released before the invocation ends, on every exit path:
\* an invocation that has finished, by return or by throw, has left none
\* of its buffers live.
C1_AllReleasedOnEveryExit ==
  lastRun.kind # "none" => lastRun.live = 0

\* C2: latest wins: the result of an older enhancement request never
\* replaces the displayed result of a newer one, whatever the order in
\* which the two complete.
C2_LatestWins ==
  [][(ShownReq # 0 /\ ShownReq' # 0) => ShownReq' >= ShownReq]_vars

\* C3: in handleAutoEnhance, on the manual and on the auto path and
\* wherever an error is thrown, delete() is called at most once on each of
\* src, rgb, hsv, channels and sharpDst, and no cv call reads a handle that
\* is unset or deleted.
C3_NoDoubleReleaseNoUseAfterRelease ==
  lastRun.kind = "enh" =>
    /\ ~lastRun.misuse
    /\ \A h \in Released : lastRun.dels[h] <= 1

\* C3 witness: an auto-path enhancement ran to its end, through the deletes
\* of the success path and then the finally block, releasing all five.
C3_Witness ==
  /\ lastRun.kind = "enh" /\ lastRun.auto /\ lastRun.ok
  /\ \A h \in Released : lastRun.dels[h] = 1

\* C4: after any number of rectify and enhance invocations that all
\* succeeded, and with none still running, the count of allocated but
\* unreleased native buffers is zero.
C4_NoLiveBuffersAfterSuccess ==
  (InFlight = {} /\ ~failed /\ Len(jobs) > 0) => leaked = 0

-----------------------------------------------------------------------------
(* Drag State of the crop editor *)

Idle == isDragging = Null /\ ~isRotating
DraggingCorner(i) == isDragging = i /\ ~isRotating
Rotating == isDragging = Null /\ isRotating

\* the point of the displayed image nearest to the pointer:
\* [0, displayWidth] x [0, displayHeight]
ClampToImage(x, y) ==
  Pt(Max(0, Min(x, imgSize.width)), Max(0, Min(y, imgSize.height)))

\* C5: a corner drag and a rotation are never active at the same time
C5_DragStateExclusive == ~(isDragging # Null /\ isRotating)

\* C6: a pointer-down on a handle while Drag State is not Idle leaves
\* Drag State unchanged
C6_BeginDragNoOpWhenActive ==
  [][(lastEvent'.op = "down" /\ ~Idle)
       => (isDragging' = isDragging /\ isRotating' = isRotating)]_vars

\* C7: pointer-up / pointer-leave always leaves Drag State Idle and changes
\* neither the points nor the rotation angle
C7_EndDragIdle ==
  [][lastEvent'.op = "up"
       => (/\ isDragging' = Null /\ isRotating' = FALSE
           /\ points' = points /\ rotation' = rotation)]_vars

\* a pointer-up has ended a drag that had moved the quadrilateral
C7_Witness ==
  /\ lastEvent.op = "up" /\ isDragging = Null /\ ~isRotating
  /\ Len(points) = 4 /\ points # InitialQuad(imgSize)

\* C8: a pointer-move while Drag State is Idle changes neither the points
\* nor the rotation angle
C8_MoveIdleNoChange ==
  [][(lastEvent'.op = "move" /\ Idle)
       => (points' = points /\ rotation' = rotation)]_vars

\* a pointer-move was handled over an initialized quadrilateral with no drag
C8_Witness ==
  lastEvent.op = "move" /\ isDragging = Null /\ ~isRotating /\ Len(points) = 4

\* C9: a pointer-move while dragging corner i sets point i to the pointer
\* clamped to the displayed image and leaves the rest unchanged
C9_CornerDragClampedToImage ==
  [][(/\ lastEvent'.op = "move" /\ Len(points) = 4
      /\ isDragging # Null /\ ~isRotating)
       => (/\ points' = [points EXCEPT ![isDragging + 1] =
                           ClampToImage(lastEvent'.a, lastEvent'.b)]
           /\ rotation' = rotation)]_vars

\* C10: an initialized quadrilateral keeps exactly 4 points through every
\* event of the crop session short of a cancel or a successful apply
C10_AlwaysFourPoints ==
  [][(/\ Len(points) = 4
      /\ lastEvent'.op \in {"move", "down", "up", "load", "apply"})
       => Len(points') = 4]_vars

\* a rotate update has been applied to a quadrilateral a corner of which
\* had been dragged before
C10_Witness ==
  /\ lastEvent.op = "move" /\ isRotating /\ rotation # 0 /\ moves >= 2
  /\ Len(points) = 4

-----------------------------------------------------------------------------
(* Crop sessions *)

\* the step that ends a crop session: Cancel, or an apply that succeeded
SessionEnded(ev) == ev.op = "cancel" \/ (ev.op = "applied" /\ ev.a = 1)

\* C11: when a crop session ends (applied or cancelled) the quadrilateral,
\* the rotation and the Drag State are all reset, and every new session
\* (a drop that opens the crop modal) starts with Drag State Idle and
\* rotation 0.
C11_SessionEndResetsEditor ==
  [][/\ SessionEnded(lastEvent') =>
          (points' = << >> /\ rotation' = 0 /\ isDragging' = Null /\ ~isRotating')
     /\ lastEvent'.op = "drop" =>
          (rotation' = 0 /\ isDragging' = Null /\ ~isRotating')]_vars

-----------------------------------------------------------------------------
(* Loading, the worker timeout and library readiness *)

\* C12: every pipeline operation that sets loading = true eventually sets
\* loading = false; no execution leaves loading = true forever.
C12_LoadingEventuallyCleared == wLoading ~> ~wLoading

\* C13: when the workerTimeout of a request fires, no reply had arrived for
\* it, its worker is terminated and the too-long error is reported; no
\* message or error of a worker is handled after its timeout fired, and
\* handling a reply cancels the timeout of that request.
C13_TimeoutTerminatesReplyCancels ==
  [][/\ wLast'.op = "timeout" =>
          /\ wJobs[wLast'.id].timer = "armed"
          /\ wJobs'[wLast'.id].worker = "terminated"
          /\ wError' = WorkerTookTooLong
     /\ wLast'.op \in {"message", "error", "onerror"} =>
          /\ wJobs[wLast'.id].timer = "armed"
          /\ wJobs'[wLast'.id].timer = "cleared"]_vars

\* C13 witness: a timeout fired on a posted request; its worker is
\* terminated and the image has no enhanced result
C13_Witness ==
  /\ wLast.op = "timeout"
  /\ wJobs[wLast.id].worker = "terminated"
  /\ wError = WorkerTookTooLong
  /\ wImage # NoImg /\ wImage.enhanced = NoImg

\* C14: a request made before the library is ready never waits forever:
\* every invocation that is waiting in waitForCvReady eventually leaves
\* the wait (by proceeding or by failing with an error).
C14_ReadinessWaitEnds ==
  \A id \in 1..(MaxWorkerCalls + 1) :
    (id <= Len(wJobs) /\ wJobs[id].stage = "waitCv")
      ~> ~(id <= Len(wJobs) /\ wJobs[id].stage = "waitCv")

-----------------------------------------------------------------------------
(* Rectification: degenerate quadrilaterals and corner ordering *)

\* twice the signed area of the triangle a, b, c
Cross(a, b, c) == (b.x - a.x) * (c.y - a.y) - (b.y - a.y) * (c.x - a.x)

\* four points with two coincident, or all on one line, or spanning no width
\* or no height
DegenerateQuad(pts) ==
  /\ Len(pts) = 4
  /\ Present(pts) = 1..4
  /\ \/ \E i, j \in 1..4 : i < j /\ pts[i] = pts[j]
     \/ \A i, j, k \in 1..4 : Cross(pts[i], pts[j], pts[k]) = 0
     \/ InvalidCropDimensions(pts)

\* C15: a crop applied to a degenerate quadrilateral is rejected with an
\* explicit error: whenever Apply Crop hands a degenerate quadrilateral to
\* applyCrop, applyCrop throws and so never returns an image.
C15_DegenerateQuadRejected ==
  [][(lastEvent'.op = "apply" /\ cropJob' # NoJob /\ DegenerateQuad(points))
       => cropJob'.invalid]_vars

-----------------------------------------------------------------------------
(* PrivacyPolicy.tsx: applyManualCrop, the ordering of the four corners *)

MaxGrid == 2              \* corner coordinates explored: 0..MaxGrid

GridPoints == {Pt(px, py) : px, py \in 0..MaxGrid}

\* arr.sort((a, b) => key(a) - key(b)): Array.prototype.sort is stable, so
\* elements with equal keys keep their order; keys[i] is the key of arr[i]
StableSort(arr, keys) ==
  LET rank(i) == Cardinality({j \in 1..Len(arr) :
                     keys[j] < keys[i] \/ (keys[j] = keys[i] /\ j < i)}) + 1
  IN [r \in 1..Len(arr) |-> arr[CHOOSE i \in 1..Len(arr) : rank(i) = r]]

SortByY(arr) == StableSort(arr, [i \in 1..Len(arr) |-> arr[i].y])
SortByX(arr) == StableSort(arr, [i \in 1..Len(arr) |-> arr[i].x])

\* sortedPoints, top, bottom and orderedPoints of applyManualCrop; scaleX
\* and scaleY are positive, so the scaled points sort as the points do
orderedPoints(pts) ==
  LET sortedPoints == SortByY(pts)
      top == SortByX(SubSeq(sortedPoints, 1, 2))
      bottom == SortByX(SubSeq(sortedPoints, 3, 4))
  IN << top[1], top[2], bottom[2], bottom[1] >>

\* orderedPoints that keeps the bottom pair in ascending x
orderedPointsBottomAscending ==
  /\ calc.fn = "orderedPoints" /\ ~calc.done
  /\ calc' = [fn |-> calc.fn, arg |-> calc.arg, done |-> TRUE,
              out |-> LET o == orderedPoints(calc.arg)
                      IN << o[1], o[2], o[4], o[3] >>]
  /\ UNCHANGED <<editorVars, enhVars, workerVars, loaderVars>>

\* applyManualCrop orders the four points it was given
applyManualCrop_order ==
  /\ calc.fn = "orderedPoints" /\ ~calc.done
  /\ calc' = [fn |-> calc.fn, arg |-> calc.arg, done |-> TRUE,
              out |-> orderedPoints(calc.arg)]
  /\ UNCHANGED <<editorVars, enhVars, workerVars, loaderVars>>

\* the four points, in every order, that applyManualCrop can be given
OrderCalls ==
  {[fn |-> "orderedPoints", arg |-> q, done |-> FALSE] :
     q \in [1..4 -> GridPoints]}

\* q lists the corners of a convex quadrilateral along its perimeter: every
\* turn is strict and in the same direction
ConvexCycle(q) ==
  LET turn(i) == Cross(q[i], q[(i % 4) + 1], q[((i + 1) % 4) + 1])
  IN (\A i \in 1..4 : turn(i) > 0) \/ (\A i \in 1..4 : turn(i) < 0)

\* the four points are, in some order, the corners of a convex,
\* non-degenerate quadrilateral
ConvexQuad(pts) ==
  \E f \in [1..4 -> 1..4] :
    /\ \A i, j \in 1..4 : f[i] = f[j] => i = j
    /\ ConvexCycle([i \in 1..4 |-> pts[f[i]]])

-----------------------------------------------------------------------------
(* The pixel arithmetic of the three enhancement variants *)

MaxChannel == 255         \* the largest value of a uchar channel

Clamp(v, lo, hi) == Max(lo, Min(hi, v))

\* cvRound(n / d) for d > 0: the nearest integer, halves to the even one
RoundHalfEven(n, d) ==
  LET q == n \div d
      r == n % d
  IN IF 2 * r < d THEN q
     ELSE IF 2 * r > d THEN q + 1
     ELSE IF q % 2 = 0 THEN q ELSE q + 1

\* Mat.convertTo(dst, -1, alpha, beta) on one uchar with alpha = a / 100 and
\* an integer beta: saturate_cast<uchar>(cvRound(p * alpha + beta))
convertTo(p, a, beta) ==
  Clamp(RoundHalfEven(p * a + 100 * beta, 100), 0, MaxChannel)

\* pixel[c] = Math.min(255, Math.max(0, x)) for x = n / d >= 0 or < 0, stored
\* in a Uint8Array: the clamped value loses its fraction
StoreClamped(n, d) ==
  IF n <= 0 THEN 0
  ELSE IF n >= MaxChannel * d THEN MaxChannel
  ELSE n \div d

\* a brightness step whose offset is brightness * 0.5
ContrastBrightnessOffsetFromZero(p, enh, isInitial) ==
  LET contrast == IF isInitial THEN 140 ELSE enh.contrast
      offset2 == IF isInitial THEN 40 ELSE enh.brightness
  IN StoreClamped((p - 128) * contrast * 2 + 128 * 200 + offset2 * 100, 200)

\* PrivacyPolicy.tsx 836-854: adjusted = (pixel[c] - 128) * contrastFactor
\* + 128 + brightnessOffset with contrastFactor = contrast / 100 and
\* brightnessOffset = (brightness - 100) * 0.5, or 1.4 and 20 when isInitial
\* (the gamma loop that precedes it runs only when isInitial)
ContrastBrightness(p, enh, isInitial) ==
  LET contrast == IF isInitial THEN 140 ELSE enh.contrast
      offset2 == IF isInitial THEN 40 ELSE enh.brightness - 100
  IN StoreClamped((p - 128) * contrast * 2 + 128 * 200 + offset2 * 100, 200)

\* PrivacyPolicy.tsx 862-873: pixel[0] * saturationFactor on the S channel
Saturation(sv, enh, isInitial) ==
  LET saturation == IF isInitial THEN 130 ELSE enh.saturation
  IN StoreClamped(sv * saturation, 100)

\* the slider settings explored: the neutral one and some that are not
EnhSettings ==
  {defaultEnhancements,
   [brightness |-> 150, contrast |-> 100, saturation |-> 100],
   [brightness |-> 100, contrast |-> 150, saturation |-> 100],
   [brightness |-> 100, contrast |-> 100, saturation |-> 150],
   [brightness |-> 0, contrast |-> 0, saturation |-> 0],
   [brightness |-> 200, contrast |-> 200, saturation |-> 200]}

\* one channel value and the settings of a manual enhancement
PixelCalls ==
  {[fn |-> "enhancePixel", arg |-> [value |-> v, enh |-> e], done |-> FALSE] :
     v \in 0..MaxChannel, e \in EnhSettings}

PixelDone(variant, cb, sat) ==
  calc' = [fn |-> calc.fn, arg |-> calc.arg, done |-> TRUE,
           out |-> [variant |-> variant, cb |-> cb, sat |-> sat]]

\* PrivacyPolicy.tsx, handleAutoEnhance(imageSrc) in manual mode
enhancePixel_PrivacyPolicy ==
  /\ calc.fn = "enhancePixel" /\ ~calc.done
  /\ PixelDone("PrivacyPolicy",
               ContrastBrightness(calc.arg.value, calc.arg.enh, FALSE),
               Saturation(calc.arg.value, calc.arg.enh, FALSE))
  /\ UNCHANGED <<editorVars, enhVars, workerVars, loaderVars>>

\* DigitalImageEnhancer.tsx 178-191: convertTo(contrast / 100,
\* brightness - 100); the S channel is scaled only if saturation !== 100
enhancePixel_DigitalImageEnhancer ==
  /\ calc.fn = "enhancePixel" /\ ~calc.done
  /\ PixelDone("DigitalImageEnhancer",
               convertTo(calc.arg.value, calc.arg.enh.contrast,
                         calc.arg.enh.brightness - 100),
               IF calc.arg.enh.saturation # 100
                 THEN convertTo(calc.arg.value, calc.arg.enh.saturation, 0)
                 ELSE calc.arg.value)
  /\ UNCHANGED <<editorVars, enhVars, workerVars, loaderVars>>

\* imageProcessor.worker.js 47: convertTo only, saturation is not applied
enhancePixel_worker ==
  /\ calc.fn = "enhancePixel" /\ ~calc.done
  /\ PixelDone("worker",
               convertTo(calc.arg.value, calc.arg.enh.contrast,
                         calc.arg.enh.brightness - 100),
               calc.arg.value)
  /\ UNCHANGED <<editorVars, enhVars, workerVars, loaderVars>>

-----------------------------------------------------------------------------
(* handleImageLoad for any display size, in tenths of a pixel *)

MaxSize == 12             \* display widths and heights explored: 1..MaxSize

\* the quadrilateral of handleImageLoad with a crop of 0.6 of each side
InitialQuadTenthsNarrow(sz) ==
  LET cropWidth == sz.width * 6
      cropHeight == sz.height * 6
      cropX == (sz.width * 10 - cropWidth) \div 2
      cropY == (sz.height * 10 - cropHeight) \div 2
  IN << Pt(cropX, cropY), Pt(cropX + cropWidth, cropY),
        Pt(cropX + cropWidth, cropY + cropHeight),
        Pt(cropX, cropY + cropHeight) >>

\* the points of handleImageLoad in tenths of a pixel, where width * 0.8
\* and (width - cropWidth) / 2 are whole numbers for every width
InitialQuadTenths(sz) ==
  LET cropWidth == sz.width * 8
      cropHeight == sz.height * 8
      cropX == (sz.width * 10 - cropWidth) \div 2
      cropY == (sz.height * 10 - cropHeight) \div 2
  IN << Pt(cropX, cropY), Pt(cropX + cropWidth, cropY),
        Pt(cropX + cropWidth, cropY + cropHeight),
        Pt(cropX, cropY + cropHeight) >>

\* imgRef.current.{width, height} of any displayed image: whole numbers,
\* 0 for an image displayed less than half a pixel wide or high
SizeCalls ==
  {[fn |-> "handleImageLoad", arg |-> [width |-> w, height |-> h],
    done |-> FALSE] : w, h \in 0..MaxSize}

\* handleImageLoad computes the points it hands to setPoints; its guard
\* (imgRef.current && cropContainerRef.current) holds whenever the <img>
\* that fired onLoad is mounted, and does not look at the size
handleImageLoad_points ==
  /\ calc.fn = "handleImageLoad" /\ ~calc.done
  /\ calc' = [fn |-> calc.fn, arg |-> calc.arg, done |-> TRUE,
              out |-> InitialQuadTenths(calc.arg)]
  /\ UNCHANGED <<editorVars, enhVars, workerVars, loaderVars>>

-----------------------------------------------------------------------------
(* applyManualCrop / applyCrop: display coordinates to source coordinates *)

MaxSource == 3            \* source and displayed widths and heights explored

\* a displayed size that falls back on the source size only when the <img>
\* is not mounted (?? in place of ||)
DisplayedOrNullish(displayed, source) ==
  IF displayed = Null THEN source ELSE displayed

\* imgRef.current?.width || image.width: the source size stands in when
\* the <img> is not mounted (Null) and when its size is 0
DisplayedOr(displayed, source) ==
  IF displayed = Null \/ displayed = 0 THEN source ELSE displayed

\* p.x * scaleX with scaleX = image.width / (imgRef.current?.width ||
\* image.width), as the fraction n / d
Scaled(v, source, displayed) ==
  [n |-> v * source, d |-> DisplayedOr(displayed, source)]

\* one point, the size of the decoded source image and the displayed size
\* (Null: no <img> mounted) of a rectify call
ScaleCalls ==
  {[fn |-> "scaledPoints",
    arg |-> [p |-> pt, source |-> [width |-> sw, height |-> sh],
             displayed |-> [width |-> dw, height |-> dh]],
    done |-> FALSE] :
     pt \in GridPoints, sw, sh \in 1..MaxSource,
     dw, dh \in {Null} \cup (0..MaxSource)}

\* scaledPoints = points.map((p) => ({x: p.x * scaleX, y: p.y * scaleY}))
applyManualCrop_scale ==
  /\ calc.fn = "scaledPoints" /\ ~calc.done
  /\ calc' = [fn |-> calc.fn, arg |-> calc.arg, done |-> TRUE,
              out |-> [x |-> Scaled(calc.arg.p.x, calc.arg.source.width,
                                    calc.arg.displayed.width),
                       y |-> Scaled(calc.arg.p.y, calc.arg.source.height,
                                    calc.arg.displayed.height)]]
  /\ UNCHANGED <<editorVars, enhVars, workerVars, loaderVars>>

-----------------------------------------------------------------------------
(* The pure steps, each applied to every input of its bounded domain *)

InitCalls ==
  /\ InitCrop /\ InitEnhancer /\ InitWorker /\ InitLoader
  /\ calc \in OrderCalls \cup PixelCalls \cup SizeCalls \cup ScaleCalls

NextPure ==
  \/ applyManualCrop_order
  \/ enhancePixel_PrivacyPolicy
  \/ enhancePixel_DigitalImageEnhancer
  \/ enhancePixel_worker
  \/ handleImageLoad_points
  \/ applyManualCrop_scale

SpecPure == InitCalls /\ [][NextPure]_vars

\* C16: for the four corners of a convex, non-degenerate quadrilateral in
\* any input order, the ordering step returns the same four points as
\* [topLeft, topRight, bottomRight, bottomLeft] with topLeft.x <= topRight.x,
\* bottomLeft.x <= bottomRight.x, topLeft.y <= bottomLeft.y and
\* topRight.y <= bottomRight.y.
C16_OrderedCorners ==
  (calc.fn = "orderedPoints" /\ calc.done /\ ConvexQuad(calc.arg)) =>
    LET o == calc.out
    IN /\ Len(o) = 4
       /\ \A k \in 1..4 :
            Cardinality({i \in 1..4 : o[i] = calc.arg[k]}) = 1
       /\ o[1].x <= o[2].x
       /\ o[4].x <= o[3].x
       /\ o[1].y <= o[4].y
       /\ o[2].y <= o[3].y

\* C16 witness: a convex quadrilateral given bottom-right corner first and
\* with its corners out of perimeter order has been ordered
C16_Witness ==
  /\ calc.fn = "orderedPoints" /\ calc.done
  /\ calc.arg = << Pt(2, 2), Pt(0, 0), Pt(0, 2), Pt(2, 0) >>
  /\ calc.out = << Pt(0, 0), Pt(2, 0), Pt(2, 2), Pt(0, 2) >>

-----------------------------------------------------------------------------
(* Enhancement: its input and what its completion changes *)

\* image?.f: a field of the image state; a null image has no fields
Field(img, f) == IF img = NoImg THEN Undefined ELSE img[f]

\* C17: every handleAutoEnhance invocation that starts has the stored
\* preprocessed bitmap as its input, never an enhanced result; a step that
\* installs an enhanced result leaves raw, preprocessed and preview as they
\* were, and the result it installs was computed from a preprocessed
\* bitmap and not from the result or the preview shown before it.
C17_EnhanceFromPreprocessedOnly ==
  [][/\ (Len(jobs') > Len(jobs) /\ jobs'[Len(jobs')].kind = "enh")
          => /\ jobs'[Len(jobs')].input.kind = "preprocessed"
             /\ jobs'[Len(jobs')].input = Field(image, "preprocessed")
     /\ (image' # image /\ image' # NoImg /\ image'.enhanced.kind = "enhanced")
          => /\ \A f \in {"raw", "preprocessed", "preview"} :
                  Field(image', f) = Field(image, f)
             /\ image'.enhanced.of.kind = "preprocessed"
             /\ \A f \in {"enhanced", "fullEnhanced", "preview"} :
                  image'.enhanced.of # Field(image, f)]_vars

\* C17 witness: two enhancement invocations finished in turn without an
\* error; the result shown is the second one, computed from the stored
\* preprocessed bitmap with the same parameters as the first
C17_Witness ==
  /\ Len(jobs) = 3 /\ InFlight = {} /\ ~failed
  /\ image # NoImg
  /\ image.enhanced.kind = "enhanced" /\ image.enhanced.req = 3
  /\ image.enhanced.of = image.preprocessed
  /\ image.enhanced.enh = defaultEnhancements /\ enhancements = defaultEnhancements

\* C18: with the neutral settings {brightness: 100, contrast: 100,
\* saturation: 100} in manual mode the contrast/brightness step and the
\* saturation scaling return every channel value 0..255 unchanged, in each
\* of the three enhancement variants.
C18_NeutralIsIdentity ==
  (calc.fn = "enhancePixel" /\ calc.done
     /\ calc.arg.enh = defaultEnhancements)
    => /\ calc.out.cb = calc.arg.value
       /\ calc.out.sat = calc.arg.value

\* C18 witness: the neutral settings have been applied to a bright channel
\* value by the loops of PrivacyPolicy.tsx, and the value came back
C18_Witness ==
  /\ calc.fn = "enhancePixel" /\ calc.done
  /\ calc.arg.enh = defaultEnhancements
  /\ calc.arg.value = 200
  /\ calc.out = [variant |-> "PrivacyPolicy", cb |-> 200, sat |-> 200]

-----------------------------------------------------------------------------
(* Failures and the error message *)

\* C19: every crop or enhancement invocation that ends in a failure leaves
\* an error message set; an Apply Crop with no source image or with a point
\* count other than 4 reports an error and starts no decode and no
\* allocation.
C19_FailuresReportError ==
  [][(lastRun' # lastRun /\ ~lastRun'.ok)
       => /\ error' # ""
          /\ lastRun' = Rejected => jobs' = jobs]_vars

-----------------------------------------------------------------------------
(* The initial quadrilateral *)

\* pts, given in pixels, in tenths of a pixel
Tenths(pts) == [k \in 1..Len(pts) |-> Pt(pts[k].x * 10, pts[k].y * 10)]

\* C20: for any display size (W, H) with W > 0 and H > 0, handleImageLoad
\* produces exactly the four points (0.1W, 0.1H), (0.9W, 0.1H),
\* (0.9W, 0.9H), (0.1W, 0.9H), in that order; for the sizes of the crop
\* editor's exploration these are the points InitialQuad gives it.
C20_InitialQuadInsetTenPercent ==
  (calc.fn = "handleImageLoad" /\ calc.done
     /\ calc.arg.width > 0 /\ calc.arg.height > 0) =>
    LET W == calc.arg.width
        H == calc.arg.height
    IN /\ calc.out = << Pt(W, H), Pt(9 * W, H), Pt(9 * W, 9 * H), Pt(W, 9 * H) >>
       /\ (W % 10 = 0 /\ H % 10 = 0) => Tenths(InitialQuad(calc.arg)) = calc.out

\* C20 witness: handleImageLoad ran for a 7 x 12 image, whose inset of 10%
\* is not a whole number of pixels
C20_Witness ==
  /\ calc.fn = "handleImageLoad" /\ calc.done
  /\ calc.arg = [width |-> 7, height |-> 12]
  /\ calc.out = << Pt(7, 12), Pt(63, 12), Pt(63, 108), Pt(7, 108) >>

\* C21: when the displayed image has zero width or zero height at the time
\* handleImageLoad runs, no quadrilateral is produced: the points stay
\* empty.
C21_NoQuadForZeroSize ==
  (calc.fn = "handleImageLoad" /\ calc.done
     /\ (calc.arg.width = 0 \/ calc.arg.height = 0))
    => calc.out = << >>

-----------------------------------------------------------------------------
(* The coordinate mapper *)

\* the fraction f equals v * num / den
IsProduct(f, v, num, den) == f.d # 0 /\ f.n * den = v * num * f.d

\* C22: the mapped x is p.x * sourceWidth / displayedWidth and the mapped y
\* is p.y * sourceHeight / displayedHeight, each axis by its own scale and
\* applied once; when the displayed width or height is unavailable or zero
\* the scale of that axis is 1, and no division by zero occurs.
C22_ScaledOncePerAxis ==
  (calc.fn = "scaledPoints" /\ calc.done) =>
    LET a == calc.arg
        o == calc.out
    IN /\ o.x.d # 0 /\ o.y.d # 0
       /\ IF a.displayed.width = Null \/ a.displayed.width = 0
            THEN IsProduct(o.x, a.p.x, 1, 1)
            ELSE IsProduct(o.x, a.p.x, a.source.width, a.displayed.width)
       /\ IF a.displayed.height = Null \/ a.displayed.height = 0
            THEN IsProduct(o.y, a.p.y, 1, 1)
            ELSE IsProduct(o.y, a.p.y, a.source.height, a.displayed.height)

\* C22 witness: a point mapped with a different scale on each axis, and the
\* displayed height zero
C22_Witness ==
  /\ calc.fn = "scaledPoints" /\ calc.done
  /\ calc.arg = [p |-> Pt(2, 1), source |-> [width |-> 3, height |-> 2],
                 displayed |-> [width |-> 2, height |-> 0]]
  /\ calc.out = [x |-> [n |-> 6, d |-> 2], y |-> [n |-> 2, d |-> 2]]

-----------------------------------------------------------------------------
(* Rotation of the quadrilateral *)

\* an angle that is a multiple of 90, brought into -90, 0, 90 or 180
NormDeg(deg) ==
  LET m == deg % 360
  IN IF m = 270 THEN -90 ELSE m

\* C23: while rotating, a pointer move that updates the points rotates every
\* point about the centroid by the difference between the new rotation
\* angle and the stored one; when both are the same angle the points do not
\* change.
C23_RotateByAngleDifference ==
  [][(lastEvent'.op = "move" /\ isRotating /\ moves' = moves + 1)
       => points' = RotateAll(points, SumX(points, Present(points)),
                              SumY(points, Present(points)),
                              NormDeg(rotation' - rotation))]_vars

-----------------------------------------------------------------------------
(* The contrast and brightness formula *)

\* C24: in manual mode every enhancement variant maps a channel value p to
\* clamp((p - 128) * contrast / 100 + 128 + (brightness - 100) * 0.5, 0, 255):
\* the stored value lies in 0..255 and is less than one unit away from
\* that number, whichever way the variant rounds.
C24_MidpointContrastFormula ==
  (calc.fn = "enhancePixel" /\ calc.done) =>
    LET p == calc.arg.value
        enh == calc.arg.enh
        target200 == Clamp((p - 128) * enh.contrast * 2 + 128 * 200
                             + (enh.brightness - 100) * 100,
                           0, MaxChannel * 200)
    IN /\ calc.out.cb \in 0..MaxChannel
       /\ 200 * calc.out.cb - target200 \in -199..199

-----------------------------------------------------------------------------
(* Slider changes, closing the image, loading and the download *)

\* C25: when the enhancement that was started last completes, with no other
\* one in flight, on an image that is shown, the result it displays was
\* computed with the slider values that are current: a slider change is
\* followed by an enhancement with the new value.
C25_SliderChangeUsesNewValue ==
  [][(/\ image # NoImg /\ image' # NoImg /\ image' # image
      /\ image'.enhanced.kind = "enhanced"
      /\ image'.enhanced.req = Len(jobs)
      /\ InFlight' = {})
       => image'.enhanced.enh = enhancements']_vars

\* C26: once the image state is null it becomes non-null only by loading and
\* cropping a new image, which stores the cropped bitmap as raw, preview
\* and preprocessed: an enhancement that completes after resetImage does
\* not create an image state.
C26_ClosedImageStaysClosed ==
  [][(image = NoImg /\ image' # NoImg)
       => (/\ image'.raw # Undefined
           /\ image'.preprocessed # Undefined
           /\ image'.enhanced.kind # "enhanced")]_vars

\* the enhancement invocations in flight in a list of jobs
Enhancing(js) ==
  {id \in 1..Len(js) : js[id].stage # "done" /\ js[id].kind = "enh"}

\* C27: when an enhancement invocation ends while another one is still
\* in flight, loading is true afterwards: the completion of an earlier
\* invocation does not clear loading under a later one.
C27_LoadingWhileEnhancing ==
  [][(/\ Enhancing(jobs') # {}
      /\ Enhancing(jobs') # Enhancing(jobs)
      /\ Enhancing(jobs') \subseteq Enhancing(jobs))
       => loading']_vars

\* C28: whenever an image is shown and no enhancement invocation is in
\* flight and none has failed, the image that Download delivers
\* (fullEnhanced) is the displayed enhanced image.
C28_DownloadIsDisplayed ==
  (/\ image # NoImg
   /\ Enhancing(jobs) = {}
   /\ ~failed
   /\ image.enhanced # Undefined)
    => image.fullEnhanced = image.enhanced

-----------------------------------------------------------------------------
(* Loading OpenCV.js as a state machine *)

\* what the page's script does, at any time or never
NextLoaderScript ==
  \/ \E c \in {"partial", "complete"} : opencvLoads(c)
  \/ onRuntimeInitialized

\* what the component and its timers do
NextLoaderSystem ==
  \/ initOpenCV
  \/ checkInterval_tick
  \/ readyTimeoutFires
  \/ initOpenCV_then
  \/ initOpenCV_catch

NextLoader == NextLoaderScript \/ NextLoaderSystem

SpecLoader == Init /\ [][NextLoader]_vars

\* C29: once the 30 s timeout of initOpenCV has fired, its promise is
\* settled: resolved by the ready event or by the polled flag, or rejected
\* by the timeout; it is never left pending.
C29_ReadinessSettledAfterTimeout ==
  readyTimeout = "fired" => ready \in {"resolved", "rejected"}

-----------------------------------------------------------------------------
(* The lifetime of the workers *)

\* C30: no worker outlives its request: when an invocation of the
\* worker-based handleAutoEnhance has ended, by a reply, a worker error,
\* the timeout or an exception while the image data was prepared, the
\* worker it created has been terminated.
C30_NoWorkerOutlivesRequest ==
  \A id \in 1..Len(wJobs) :
    wJobs[id].stage = "done" => wJobs[id].worker # "running"

====
